---- MODULE Spec2Model ----
(***************************************************************************)
(* Model of the /conversation-retro command of pi-conversation-retro       *)
(* (src/extensions/index.ts): the command handler, the bounded worker pool *)
(* runWithConcurrency, the process supervisor runPiCommand and the         *)
(* per-record task analyzeConversation.                                    *)
(*                                                                         *)
(* Node runs the handler on one thread: every action below is one          *)
(* run-to-completion turn of the event loop (a child's close or error      *)
(* event with all promise continuations it triggers, or a timer callback). *)
(* The synchronous block of the handler between two awaits is cut at its   *)
(* renderProgress calls, so that every rendered snapshot is a state; while *)
(* the handler is inside such a block no event or timer action is enabled. *)
(*                                                                         *)
(* Indices are 1-based here (TLA+ sequences); the source's index i is      *)
(* i + 1 in the model, and cursor = c in the source is cursor = c + 1.     *)
(***************************************************************************)
EXTENDS Naturals, Integers, Sequences, FiniteSets, TLC

\* ---------------------------------------------------------------- bounds
MaxRecords == 2     \* session files found in scope by the scan
MaxConc    == 2     \* largest --concurrency value explored
MaxLimit   == 1     \* largest --limit value explored (0 stands for no limit)

Names  == {"a", "b"}            \* base names (path.basename); files of two directories can share one
Times  == {1, 2}                \* creation instants: an older and a newer one

VARIABLES
    files,          \* the session files that pass the filters of lines 474-478
                    \*   and 612 (recent, header cwd inside the repo), in scan order
    artifacts,      \* outputDir: per base name, the content of <name>.md
    options,        \* CommandOptions returned by parseArgs
    hasUI,          \* ctx.hasUI
    pc,             \* position of the handler
    progress,       \* ProgressState
    ui,             \* what the UI shows: status entry and widget
    notifications,  \* kinds of ctx.ui.notify calls made so far
    items,          \* limitedCandidates: indices into files
    cursor,         \* runWithConcurrency: next index to claim
    loops,          \* runWithConcurrency: per loop, 0 = not created,
                    \*   i > 0 = awaiting worker(i), Returned = finished
    results,        \* runWithConcurrency: the results array
    procs,          \* runPiCommand invocations: 0 = reviewer, i = item i
    bundle,         \* summaryPathsInScope, as given to the reviewer
    reviewerResult, \* the handler's reviewerResult (line 697)
    reports,        \* outputDir: content of the two report files
    candidates,     \* the handler's candidates (line 614), before the limit
    earlier,        \* history: what the earlier runs of the command did
    call,           \* a call of one of the pure helpers: arguments and result
    log             \* history: per index, what runWithConcurrency did for it

vars == <<files, artifacts, options, hasUI, pc, progress, ui, notifications,
          items, cursor, loops, results, procs, bundle, reviewerResult, reports,
          candidates, earlier, call, log>>

\* ------------------------------------------------------------- utilities
Min(a, b) == IF a < b THEN a ELSE b
Max(a, b) == IF a > b THEN a ELSE b

RECURSIVE SeqFilter(_, _)
\* Array.prototype.filter with the predicate given as the set of kept values.
SeqFilter(s, keep) ==
    IF s = <<>> THEN <<>>
    ELSE IF Head(s) \in keep THEN <<Head(s)>> \o SeqFilter(Tail(s), keep)
         ELSE SeqFilter(Tail(s), keep)

FileLists == UNION {[1..n -> [name : Names, created : Times]] : n \in 0..MaxRecords}

Reviewer == 0                   \* proc id of the synthesis invocation
ProcIds  == 0..MaxRecords       \* i > 0: the analysis of items[i]

\* --------------------------------------------------------------- discovery
RECURSIVE InsertByCreated(_, _, _)
\* One step of the stable sort of line 497: x goes behind every element that
\* is not newer than it.
InsertByCreated(fs, x, s) ==
    IF s = <<>> THEN <<x>>
    ELSE IF fs[Head(s)].created <= fs[x].created
         THEN <<Head(s)>> \o InsertByCreated(fs, x, Tail(s))
         ELSE <<x>> \o s

RECURSIVE SortByCreated(_, _)
\* candidates.sort((a, b) => a.sessionCreatedAt - b.sessionCreatedAt): ascending,
\* stable (ties keep scan order).
SortByCreated(fs, s) ==
    IF s = <<>> THEN <<>>
    ELSE InsertByCreated(fs, s[Len(s)], SortByCreated(fs, SubSeq(s, 1, Len(s) - 1)))

\* The file indices 1..Len(fs) in scan order.
ScanOrder(fs) == [i \in 1..Len(fs) |-> i]

\* Mutant: existing summaries are not looked at.
GetConversationCandidates_NoSkip(fs, existing) ==
    [candidates |-> SortByCreated(fs, ScanOrder(fs)), skippedExisting |-> 0]

\* getConversationCandidates: files whose summary exists are counted and
\* dropped, the rest sorted by creation time.
GetConversationCandidates(fs, existing) ==
    LET fresh == {i \in 1..Len(fs) : fs[i].name \notin existing}
    IN  [candidates      |-> SortByCreated(fs, SeqFilter(ScanOrder(fs), fresh)),
         skippedExisting |-> Len(fs) - Cardinality(fresh)]

\* Mutant: the limit keeps the end of the list.
LimitCandidates_KeepsNewest(cands, limit) ==
    IF limit # 0
    THEN SubSeq(cands, Len(cands) - Min(limit, Len(cands)) + 1, Len(cands))
    ELSE cands

\* options.limit ? candidates.slice(0, options.limit) : candidates
LimitCandidates(cands, limit) ==
    IF limit # 0 THEN SubSeq(cands, 1, Min(limit, Len(cands))) ELSE cands

\* ---------------------------------------------------------------- progress
NewProgress ==
    [phase |-> "discovering", totalInScope |-> 0, totalToAnalyze |-> 0,
     totalSkippedExisting |-> 0, running |-> 0, finished |-> 0,
     succeeded |-> 0, failed |-> 0, reviewerDone |-> FALSE,
     reportPath |-> "unset", runningItems |-> <<>>]

NoUI == [status |-> "unset", widget |-> "unset"]

\* renderProgress: sets the status entry and the widget (whose lines carry the
\* phase label) when there is a UI.
RenderProgress(u, ui0, state) ==
    IF ~u THEN ui0 ELSE [status |-> "shown", widget |-> state.phase]

\* clearProgress: removes the status entry when there is a UI.
ClearProgress(u, ui0) ==
    IF ~u THEN ui0 ELSE [ui0 EXCEPT !.status = "unset"]

\* ctx.ui.notify guarded by ctx.hasUI
Notify(u, ns, kind) == IF u THEN ns \cup {kind} ELSE ns

\* progress.phase = ... of lines 620, 679 and 632/672/703/715
PhaseAfterDiscovery == "analyzing"
\* Mutant: the review step falls back to the discovery label.
PhaseReview_Regress == "discovering"
PhaseReview == "reviewing"
PhaseDone == "done"

\* ------------------------------------------------------------------ procs
NoProc ==
    [child |-> "none", timeoutId |-> "none", grace |-> "none",
     killed |-> FALSE, procKilled |-> FALSE, signals |-> {}, resolved |-> FALSE]

\* spawn("pi", ...) and setTimeout(..., timeoutMs) of runPiCommand
SpawnedProc ==
    [child |-> "running", timeoutId |-> "armed", grace |-> "none",
     killed |-> FALSE, procKilled |-> FALSE, signals |-> {}, resolved |-> FALSE]

\* no RunPiResult yet
NoRunPiResult ==
    [stdout |-> "", stderr |-> <<>>, exitCode |-> 0, killed |-> FALSE, set |-> FALSE]

NoLoop == [st |-> "none", index |-> 0]

\* Content of <name>.md: absent, left by an earlier run, or written in this run
\* by the task of file f (the source_session line of buildSummaryFileContent).
NoFile  == [kind |-> "none", source |-> 0]
OldFile == [kind |-> "old", source |-> 0]
Written(f) == [kind |-> "new", source |-> f]

\* workflow-improvement-report-<tag>.md and workflow-improvement-report-latest.md
ReportFiles == {"tagged", "latest"}

\* existsSync(path.join(outputDir, name + ".md"))
Existing(dir) == {n \in Names : dir[n] # NoFile}

\* Nothing has run before: no run, no candidates, no analysed record, no report.
NoEarlier == [runs |-> 0, candidates |-> {}, analysed |-> {}, report |-> "absent"]

\* Nothing has been done for any index.
NoLog == [i \in 1..MaxRecords |-> <<>>]

\* No helper call is looked at.
NoCall == [fn |-> "none"]

Init ==
    /\ files \in FileLists
    /\ artifacts \in [Names -> {NoFile, OldFile}]
    /\ options \in [dryRun : BOOLEAN, concurrency : 1..MaxConc, limit : 0..MaxLimit]
    /\ hasUI \in BOOLEAN
    /\ pc = "discover"
    /\ progress = NewProgress
    /\ ui = RenderProgress(hasUI, NoUI, NewProgress)
    /\ notifications = {}
    /\ items = <<>>
    /\ cursor = 1
    /\ loops = [k \in 1..MaxConc |-> NoLoop]
    /\ results = <<>>
    /\ procs = [p \in ProcIds |-> NoProc]
    /\ bundle = <<>>
    /\ reviewerResult = NoRunPiResult
    /\ reports = [f \in ReportFiles |-> "absent"]
    /\ candidates = <<>>
    /\ earlier = NoEarlier
    /\ call = NoCall
    /\ log = NoLog

\* handler, lines 604-629: both scans, the limit, the totals, phase analyzing.
Discover ==
    /\ pc = "discover"
    /\ LET found   == GetConversationCandidates(files, Existing(artifacts))
           limited == LimitCandidates(found.candidates, options.limit)
           p1      == [progress EXCEPT !.totalInScope = Len(files),
                                       !.totalSkippedExisting = found.skippedExisting,
                                       !.totalToAnalyze = Len(limited),
                                       !.phase = PhaseAfterDiscovery]
       IN  /\ candidates' = found.candidates
           /\ items' = limited
           /\ progress' = p1
           /\ ui' = RenderProgress(hasUI, ui, p1)
           /\ notifications' = Notify(hasUI, notifications, "scope")
    /\ pc' = "branch"
    /\ UNCHANGED <<call, log, earlier, files, artifacts, options, hasUI, cursor, loops, results,
                   procs, bundle, reviewerResult, reports>>

\* Mutant: the --dry-run flag is not honoured.
IsDryRun_Ignored == FALSE

\* if (options.dryRun), line 631
IsDryRun == options.dryRun

\* handler, lines 631-639: the dry-run exit.
DryRunExit ==
    /\ pc = "branch"
    /\ IsDryRun
    /\ LET p1 == [progress EXCEPT !.phase = PhaseDone]
       IN  /\ progress' = p1
           /\ ui' = ClearProgress(hasUI, RenderProgress(hasUI, ui, p1))
           /\ notifications' = Notify(hasUI, notifications, "dry-run")
    /\ pc' = "returned"
    /\ UNCHANGED <<call, log, earlier, candidates, files, artifacts, options, hasUI, items, cursor, loops,
                   results, procs, bundle, reviewerResult, reports>>

\* ------------------------------------------------------------- the pool
\* Mutant: the requested concurrency is not applied.
SafeConcurrency_Uncapped(concurrency, n) == Max(1, n)

\* Math.max(1, Math.min(concurrency, items.length))
SafeConcurrency(concurrency, n) == Max(1, Min(concurrency, n))

\* onItemStart of the handler, lines 646-650 (the render is done by the caller)
OnItemStart(state, name) ==
    [state EXCEPT !.running = @ + 1, !.runningItems = Append(@, name)]

\* Mutant: onItemDone forgets to decrement running.
OnItemDone_KeepsRunning(state, name, success) ==
    [state EXCEPT !.finished = @ + 1,
                  !.runningItems = SeqFilter(@, Names \ {name}),
                  !.succeeded = IF success THEN @ + 1 ELSE @,
                  !.failed = IF success THEN @ ELSE @ + 1]

\* onItemDone of the handler, lines 651-658
OnItemDone(state, name, success) ==
    [state EXCEPT !.running = Max(0, @ - 1),
                  !.finished = @ + 1,
                  !.runningItems = SeqFilter(@, Names \ {name}),
                  !.succeeded = IF success THEN @ + 1 ELSE @,
                  !.failed = IF success THEN @ ELSE @ + 1]

\* Mutant: results.push(result), the results in completion order.
StoreResult_Push(res, index, result) ==
    [res EXCEPT ![Cardinality({j \in DOMAIN res : res[j].set}) + 1] = result]

\* results[index] = result
StoreResult(res, index, result) == [res EXCEPT ![index] = result]

NoResult == [candidate |-> 0, success |-> FALSE, set |-> FALSE]

\* What loop k does for an index, in the order of lines 564-570.
Did(k, evs) == [j \in 1..Len(evs) |-> [ev |-> evs[j], loop |-> k]]

\* Mutant: the cursor is read but not advanced.
ClaimNext_KeepsCursor(ps, k) ==
    LET index == ps.cursor
    IN  IF index > Len(items)
        THEN [ps EXCEPT !.loops[k] = [st |-> "returned", index |-> 0]]
        ELSE LET p1 == OnItemStart(ps.progress, files[items[index]].name)
             IN  [cursor   |-> index,
                  loops    |-> [ps.loops EXCEPT ![k] = [st |-> "awaiting", index |-> index]],
                  progress |-> p1,
                  procs    |-> [ps.procs EXCEPT ![index] = SpawnedProc],
                  ui       |-> RenderProgress(hasUI, ps.ui, p1),
                  log      |-> [ps.log EXCEPT ![index] =
                                  @ \o Did(k, <<"claim", "onItemStart", "worker">>)]]

\* One pass of the loop body of lines 563-568 by loop k, on the pool state
\* ps = [cursor, loops, progress, procs, ui, log]: claim the next index; return
\* when there is none, else onItemStart, then worker (spawn) and await.
ClaimNext(ps, k) ==
    LET index == ps.cursor
    IN  IF index > Len(items)
        THEN [ps EXCEPT !.cursor = index + 1, !.loops[k] = [st |-> "returned", index |-> 0]]
        ELSE LET p1 == OnItemStart(ps.progress, files[items[index]].name)
             IN  [cursor   |-> index + 1,
                  loops    |-> [ps.loops EXCEPT ![k] = [st |-> "awaiting", index |-> index]],
                  progress |-> p1,
                  procs    |-> [ps.procs EXCEPT ![index] = SpawnedProc],
                  ui       |-> RenderProgress(hasUI, ps.ui, p1),
                  log      |-> [ps.log EXCEPT ![index] =
                                  @ \o Did(k, <<"claim", "onItemStart", "worker">>)]]

RECURSIVE StartLoops(_, _, _)
\* new Array(safeConcurrency).fill(null).map(async () => ...): every loop runs
\* to its first await, in order.
StartLoops(ps, k, n) ==
    IF k > n THEN ps ELSE StartLoops(ClaimNext(ps, k), k + 1, n)

\* Mutant: the pool resolves with the first loop that returns.
AllReturned_FirstOnly(ls, n) == \E k \in 1..n : ls[k].st = "returned"

\* Promise.all(loops) has resolved: every loop function has returned.
AllReturned(ls, n) == \A k \in 1..n : ls[k].st = "returned"

PoolSize == SafeConcurrency(options.concurrency, Len(items))

\* handler, lines 641-643, and runWithConcurrency up to its await.
StartPool ==
    /\ pc = "branch"
    /\ ~IsDryRun
    /\ IF Len(items) = 0
       THEN /\ pc' = "poolResolved"
            /\ UNCHANGED <<cursor, loops, progress, procs, ui, results, log>>
       ELSE \E ps \in {StartLoops([cursor |-> cursor, loops |-> loops,
                                    progress |-> progress, procs |-> procs, ui |-> ui,
                                    log |-> log],
                                   1, PoolSize)} :
                /\ log' = ps.log
                /\ cursor' = ps.cursor
                /\ loops' = ps.loops
                /\ progress' = ps.progress
                /\ procs' = ps.procs
                /\ ui' = ps.ui
                /\ results' = [i \in 1..Len(items) |-> NoResult]
                /\ pc' = "awaitPool"
    /\ UNCHANGED <<call, earlier, candidates, files, artifacts, options, hasUI, notifications, items,
                   bundle, reviewerResult, reports>>

\* ----------------------------------------------------------- runPiCommand
CloseCodes == {"0", "1", "null"}    \* the code a close event carries
\* captured stdout: empty, blank, a text, a text inside white space
Stdouts    == {"", " ", "text", " more\n"}

\* String.prototype.trim
Trim(str) ==
    CASE str = " "       -> ""
      [] str = " more\n" -> "more"
      [] OTHER           -> str

\* code ?? 0
ExitCodeOf(code) == IF code = "1" THEN 1 ELSE 0

\* Captured stderr, as its chunks. The handler uses stderr in message texts
\* only, so its runs are explored with NoStderr.
NoStderr == <<>>

\* String(error) of a failed spawn
SpawnErrorText == "Error: spawn pi ENOENT"

\* the close handler's resolve, line 445
OnClose(code, stdout, stderr, killed) ==
    [stdout |-> stdout, stderr |-> stderr, exitCode |-> ExitCodeOf(code),
     killed |-> killed, set |-> TRUE]

\* the error handler's resolve, line 450: `${stderr}\n${String(error)}`.trim()
OnError(stdout, stderr) ==
    [stdout |-> stdout, stderr |-> Append(stderr, SpawnErrorText), exitCode |-> 1,
     killed |-> TRUE, set |-> TRUE]

\* clearTimeout(timeoutId) and resolve(...); the child is gone.
Settled(proc) ==
    [proc EXCEPT !.resolved = TRUE, !.child = "exited",
                 !.timeoutId = IF @ = "armed" THEN "cleared" ELSE @]

\* ChildProcess.kill(signal): the signal is delivered while the child has not
\* exited, and a delivered signal sets proc.killed.
ProcKill(proc, signal) ==
    IF proc.child \in {"running", "dying", "ignoring"}
    THEN [proc EXCEPT !.procKilled = TRUE, !.signals = @ \cup {signal}]
    ELSE proc

\* the condition of line 431
SendsForcedKill(proc) == ~proc.procKilled

EventsEnabled == pc \in {"awaitPool", "awaitReviewer", "returned", "threw"}

\* The timeout callback, lines 427-433. The child either goes down on
\* SIGTERM (a close event follows) or ignores it and never exits by itself.
TimeoutFires(p) ==
    /\ EventsEnabled
    /\ procs[p].timeoutId = "armed"
    /\ \E reaction \in {"dying", "ignoring"} :
         procs' = [procs EXCEPT ![p] =
                     [ProcKill([@ EXCEPT !.killed = TRUE], "SIGTERM")
                        EXCEPT !.timeoutId = "fired", !.grace = "armed",
                               !.child = reaction]]
    /\ UNCHANGED <<call, log, earlier, candidates, files, artifacts, options, hasUI, pc, progress, ui,
                   notifications, items, cursor, loops, results, bundle,
                   reviewerResult, reports>>

\* The inner timer callback, lines 430-432, 4000 ms after the timeout. It is
\* never cancelled, so it also fires after the call has resolved.
GraceFires(p) ==
    /\ EventsEnabled
    /\ procs[p].grace = "armed"
    /\ procs' = [procs EXCEPT ![p] =
                   IF SendsForcedKill(@)
                   THEN LET q == ProcKill(@, "SIGKILL")
                        IN  [q EXCEPT !.grace = "fired",
                                      !.child = IF "SIGKILL" \in q.signals
                                                THEN "dying" ELSE @]
                   ELSE [@ EXCEPT !.grace = "fired"]]
    /\ UNCHANGED <<call, log, earlier, candidates, files, artifacts, options, hasUI, pc, progress, ui,
                   notifications, items, cursor, loops, results, bundle,
                   reviewerResult, reports>>

\* A close event can arrive for a child that runs or is going down.
CanClose(proc) == ~proc.resolved /\ proc.child \in {"running", "dying"}
\* An error event: the spawn failed (emitted before anything else happens). A
\* close event after it finds the promise resolved and changes nothing.
CanError(proc) == ~proc.resolved /\ proc.child = "running" /\ proc.timeoutId = "armed"

CodesOf(proc) == IF "SIGKILL" \in proc.signals THEN {"null"} ELSE CloseCodes

\* ------------------------------------------------------ analyzeConversation
\* Mutant: the killed flag is not looked at.
AnalyzeConversation_IgnoresKilled(candidate, r, writeOk) ==
    IF r.exitCode # 0 \/ Trim(r.stdout) = "" \/ ~writeOk
    THEN [candidate |-> candidate, success |-> FALSE, wrote |-> FALSE, threw |-> FALSE]
    ELSE [candidate |-> candidate, success |-> TRUE, wrote |-> TRUE, threw |-> FALSE]

\* Mutant: no try/catch around writeFileSync, a failed write throws.
AnalyzeConversation_WriteThrows(candidate, r, writeOk) ==
    IF r.exitCode # 0 \/ r.killed \/ Trim(r.stdout) = ""
    THEN [candidate |-> candidate, success |-> FALSE, wrote |-> FALSE, threw |-> FALSE]
    ELSE IF ~writeOk
    THEN [candidate |-> candidate, success |-> FALSE, wrote |-> FALSE, threw |-> TRUE]
    ELSE [candidate |-> candidate, success |-> TRUE, wrote |-> TRUE, threw |-> FALSE]

\* lines 518-546 on the RunPiResult r; writeOk: writeFileSync does not throw.
AnalyzeConversation(candidate, r, writeOk) ==
    IF r.exitCode # 0 \/ r.killed
    THEN [candidate |-> candidate, success |-> FALSE, wrote |-> FALSE, threw |-> FALSE]
    ELSE IF Trim(r.stdout) = ""
    THEN [candidate |-> candidate, success |-> FALSE, wrote |-> FALSE, threw |-> FALSE]
    ELSE IF ~writeOk
    THEN [candidate |-> candidate, success |-> FALSE, wrote |-> FALSE, threw |-> FALSE]
    ELSE [candidate |-> candidate, success |-> TRUE, wrote |-> TRUE, threw |-> FALSE]

\* What analyzeConversation can return for item i on a close event: one value
\* per exit code, captured stdout and outcome of the write.
CloseOutcomes(i) ==
    {AnalyzeConversation(items[i], OnClose(code, stdout, NoStderr, procs[i].killed), writeOk) :
        code \in CodesOf(procs[i]), stdout \in Stdouts, writeOk \in BOOLEAN}

\* ... and on an error event.
ErrorOutcomes(i) ==
    {AnalyzeConversation(items[i], OnError(stdout, NoStderr), writeOk) :
        stdout \in {""}, writeOk \in BOOLEAN}

\* The loop that awaits worker(items[i], i).
LoopOf(i) == CHOOSE k \in 1..MaxConc : loops[k] = [st |-> "awaiting", index |-> i]

\* The pool state after loop k got the value a for index i: lines 569-570 and
\* the next pass of the loop.
Continue(i, k, a, pr1) ==
    LET p1 == OnItemDone(progress, files[items[i]].name, a.success)
    IN  ClaimNext([cursor |-> cursor, loops |-> loops, progress |-> p1,
                   procs |-> pr1, ui |-> RenderProgress(hasUI, ui, p1),
                   log |-> [log EXCEPT ![i] = @ \o Did(k, <<"store", "onItemDone">>)]], k)

\* The turn in which runPiCommand of item i resolves and analyzeConversation
\* returns a: its loop stores the result, calls onItemDone and claims again
\* (lines 568-570, 564-568); the last loop to return resolves Promise.all. A
\* worker that throws rejects its loop, and Promise.all with it.
TaskSettles(i, a) ==
    /\ artifacts' = IF a.wrote
                    THEN [artifacts EXCEPT ![files[items[i]].name] = Written(items[i])]
                    ELSE artifacts
    /\ IF a.threw
       THEN /\ loops' = [loops EXCEPT ![LoopOf(i)] = [st |-> "rejected", index |-> 0]]
            /\ procs' = [procs EXCEPT ![i] = Settled(@)]
            /\ pc' = IF pc = "awaitPool" THEN "threw" ELSE pc
            /\ UNCHANGED <<results, progress, ui, cursor, log>>
       ELSE \E ps \in {Continue(i, LoopOf(i), a, [procs EXCEPT ![i] = Settled(@)])} :
                /\ results' = StoreResult(results, i,
                                [candidate |-> a.candidate, success |-> a.success,
                                 set |-> TRUE])
                /\ log' = ps.log
                /\ progress' = ps.progress
                /\ ui' = ps.ui
                /\ cursor' = ps.cursor
                /\ loops' = ps.loops
                /\ procs' = ps.procs
                /\ pc' = IF pc = "awaitPool" /\ AllReturned(ps.loops, PoolSize)
                         THEN "poolResolved" ELSE pc
    /\ UNCHANGED <<call, earlier, candidates, files, options, hasUI, notifications, items, bundle,
                   reviewerResult, reports>>

\* The close event of the child analysing item i (line 443).
TaskClose(i) ==
    /\ EventsEnabled
    /\ i \in 1..Len(items)
    /\ CanClose(procs[i])
    /\ \E a \in CloseOutcomes(i) : TaskSettles(i, a)

\* The error event of the child analysing item i (line 448).
TaskError(i) ==
    /\ EventsEnabled
    /\ i \in 1..Len(items)
    /\ CanError(procs[i])
    /\ \E a \in ErrorOutcomes(i) : TaskSettles(i, a)

\* ---------------------------------------------------------------- review
\* Mutant: only the summaries written in this run are collected.
SummaryPathsInScope_OnlyNew(fs, dir) ==
    LET have == {i \in 1..Len(fs) : dir[fs[i].name].kind = "new"}
        kept == SeqFilter(ScanOrder(fs), have)
    IN  [j \in 1..Len(kept) |-> fs[kept[j]].name]

\* lines 667-669: the summary paths of all in-scope files that exist now.
SummaryPathsInScope(fs, dir) ==
    LET have == {i \in 1..Len(fs) : fs[i].name \in Existing(dir)}
        kept == SeqFilter(ScanOrder(fs), have)
    IN  [j \in 1..Len(kept) |-> fs[kept[j]].name]

\* results.filter((r) => !r.success)
Failed(res) == {i \in DOMAIN res : ~res[i].success}

\* handler, lines 662-677: nothing to review.
SkipReview ==
    /\ pc = "poolResolved"
    /\ SummaryPathsInScope(files, artifacts) = <<>>
    /\ LET p1 == [progress EXCEPT !.phase = PhaseDone]
           n1 == IF Failed(results) # {}
                 THEN Notify(hasUI, notifications, "failed") ELSE notifications
       IN  /\ progress' = p1
           /\ ui' = ClearProgress(hasUI, RenderProgress(hasUI, ui, p1))
           /\ notifications' = Notify(hasUI, n1, "no-summaries")
    /\ pc' = "returned"
    /\ UNCHANGED <<call, log, earlier, candidates, files, artifacts, options, hasUI, items, cursor, loops,
                   results, procs, bundle, reviewerResult, reports>>

\* handler, lines 662-697: phase reviewing, the bundle, the reviewer spawned.
StartReview ==
    /\ pc = "poolResolved"
    /\ SummaryPathsInScope(files, artifacts) # <<>>
    /\ LET p1 == [progress EXCEPT !.phase = PhaseReview]
       IN  /\ progress' = p1
           /\ ui' = RenderProgress(hasUI, ui, p1)
    /\ notifications' = IF Failed(results) # {}
                        THEN Notify(hasUI, notifications, "failed") ELSE notifications
    /\ bundle' = SummaryPathsInScope(files, artifacts)
    /\ procs' = [procs EXCEPT ![Reviewer] = SpawnedProc]
    /\ pc' = "awaitReviewer"
    /\ UNCHANGED <<call, log, earlier, candidates, files, artifacts, options, hasUI, items, cursor, loops,
                   results, reviewerResult, reports>>

\* the condition of line 698
ReviewerFailed(r) == r.exitCode # 0 \/ r.killed \/ Trim(r.stdout) = ""

\* Mutant: the latest alias is not written.
WriteReports_OnlyTagged(rep, r) == [rep EXCEPT !["tagged"] = Trim(r.stdout) \o "\n"]

\* lines 709-713: both report files get reviewerResult.stdout.trim() + "\n"
WriteReports(rep, r) == [f \in ReportFiles |-> Trim(r.stdout) \o "\n"]

\* Mutant: the failure branch still writes the latest report.
KeepReports_WritesLatest(rep, r) == [rep EXCEPT !["latest"] = Trim(r.stdout)]

\* lines 698-707: the failure branch writes nothing
KeepReports(rep, r) == rep

\* handler, lines 697-736, in the turn in which the reviewer's runPiCommand
\* resolves with r.
ReviewSettles(r) ==
    /\ reviewerResult' = r
    /\ procs' = [procs EXCEPT ![Reviewer] = Settled(@)]
    /\ IF ReviewerFailed(r)
       THEN LET p1 == [progress EXCEPT !.phase = PhaseDone]
            IN  /\ progress' = p1
                /\ ui' = ClearProgress(hasUI, RenderProgress(hasUI, ui, p1))
                /\ notifications' = Notify(hasUI, notifications, "reviewer-failed")
                /\ reports' = KeepReports(reports, r)
       ELSE LET p1 == [progress EXCEPT !.phase = PhaseDone, !.reviewerDone = TRUE,
                                       !.reportPath = "tagged"]
            IN  /\ progress' = p1
                /\ ui' = ClearProgress(hasUI, RenderProgress(hasUI, ui, p1))
                /\ notifications' = Notify(hasUI, notifications, "complete")
                /\ reports' = WriteReports(reports, r)
    /\ pc' = "returned"
    /\ UNCHANGED <<call, log, earlier, candidates, files, artifacts, options, hasUI, items, cursor, loops,
                   results, bundle>>

\* The close event of the reviewer child.
ReviewClose ==
    /\ pc = "awaitReviewer"
    /\ CanClose(procs[Reviewer])
    /\ \E code \in CodesOf(procs[Reviewer]), stdout \in Stdouts :
         ReviewSettles(OnClose(code, stdout, NoStderr, procs[Reviewer].killed))

\* The error event of the reviewer child.
ReviewError ==
    /\ pc = "awaitReviewer"
    /\ CanError(procs[Reviewer])
    /\ ReviewSettles(OnError("", NoStderr))

Next ==
    \/ Discover
    \/ DryRunExit
    \/ StartPool
    \/ \E p \in ProcIds : TimeoutFires(p)
    \/ \E p \in ProcIds : GraceFires(p)
    \/ \E i \in 1..MaxRecords : TaskClose(i)
    \/ \E i \in 1..MaxRecords : TaskError(i)
    \/ SkipReview
    \/ StartReview
    \/ ReviewClose
    \/ ReviewError

Spec == Init /\ [][Next]_vars

\* ------------------------------------------------------- consecutive runs
\* The candidates, as a set of files.
CandidateSet(cands) == {cands[j] : j \in DOMAIN cands}

\* The records whose analysis succeeded in the run that has just returned.
Analysed(its, res) == {its[i] : i \in {j \in DOMAIN res : res[j].success}}

\* The command is invoked again after the handler has returned: the same
\* session files, cutoff and output directory (whose summaries are by now
\* files of an earlier run, and whose next tagged report gets a new name),
\* new arguments, and a fresh handler state (lines 583-602).  One run
\* follows another: what holds of a run and the one after it holds of any
\* two consecutive runs.
Rerun ==
    /\ pc = "returned"
    /\ earlier.runs = 0
    /\ earlier' = [runs       |-> earlier.runs + 1,
                   candidates |-> CandidateSet(candidates),
                   analysed   |-> earlier.analysed \cup Analysed(items, results),
                   report     |-> IF progress.reviewerDone
                                  THEN reports["tagged"]
                                  ELSE earlier.report]
    /\ artifacts' = [n \in Names |-> IF artifacts[n] = NoFile THEN NoFile ELSE OldFile]
    /\ reports' = [reports EXCEPT !["tagged"] = "absent"]
    /\ options' \in [dryRun : BOOLEAN, concurrency : 1..MaxConc, limit : 0..MaxLimit]
    /\ pc' = "discover"
    /\ progress' = NewProgress
    /\ ui' = RenderProgress(hasUI, ui, NewProgress)
    /\ notifications' = {}
    /\ candidates' = <<>>
    /\ items' = <<>>
    /\ cursor' = 1
    /\ loops' = [k \in 1..MaxConc |-> NoLoop]
    /\ results' = <<>>
    /\ procs' = [p \in ProcIds |-> NoProc]
    /\ bundle' = <<>>
    /\ reviewerResult' = NoRunPiResult
    /\ log' = NoLog
    /\ UNCHANGED <<call, files, hasUI>>

NextOrRerun == Next \/ Rerun

\* Across runs the order of creation plays no part: the session files of
\* the consecutive runs are created at one instant, and keep the scan order.
RerunInit == Init /\ \A i \in DOMAIN files : files[i].created = 1

\* The command invoked twice in a row.
RerunSpec == RerunInit /\ [][NextOrRerun]_vars

\* Node's event loop runs every pending callback: a turn that can run does.
FairSpec == Spec /\ WF_vars(Next)

\* ----------------------------------------------------------- pure helpers
\* The handler's variables; a helper call leaves them alone.
handlerVars == <<files, artifacts, options, hasUI, pc, progress, ui, notifications,
                 items, cursor, loops, results, procs, bundle, reviewerResult,
                 reports, candidates, earlier, log>>

\* No command is running.
HandlerIdle ==
    /\ files = <<>>
    /\ artifacts = [n \in Names |-> NoFile]
    /\ options = [dryRun |-> FALSE, concurrency |-> 1, limit |-> 0]
    /\ hasUI = FALSE
    /\ pc = "idle"
    /\ progress = NewProgress
    /\ ui = NoUI
    /\ notifications = {}
    /\ items = <<>>
    /\ cursor = 1
    /\ loops = [k \in 1..MaxConc |-> NoLoop]
    /\ results = <<>>
    /\ procs = [p \in ProcIds |-> NoProc]
    /\ bundle = <<>>
    /\ reviewerResult = NoRunPiResult
    /\ reports = [f \in ReportFiles |-> "absent"]
    /\ candidates = <<>>
    /\ earlier = NoEarlier
    /\ log = NoLog

\* ------------------------------------------------------------ isPathInside
\* An absolute POSIX path is the sequence of its segments: <<>> is "/",
\* <<"repo", "sub">> is "/repo/sub". A segment is a directory name or "..".
MaxDepth == 3       \* segments of a path handed to isPathInside

Segments == {"repo", "repo-other", "sub", "..", "..cache"}
\* the segments s with s.startsWith("..")
DotDotPrefixed == {"..", "..cache"}

Paths == UNION {[1..n -> Segments] : n \in 0..MaxDepth}

RECURSIVE Normalize(_, _)
\* path.resolve of an absolute path: a ".." segment removes the segment before
\* it, and stays at the root when there is none.
Normalize(p, acc) ==
    IF p = <<>> THEN acc
    ELSE IF Head(p) = ".."
         THEN Normalize(Tail(p), IF acc = <<>> THEN <<>> ELSE SubSeq(acc, 1, Len(acc) - 1))
         ELSE Normalize(Tail(p), Append(acc, Head(p)))

PathResolve(p) == Normalize(p, <<>>)

RECURSIVE CommonLen(_, _)
\* the number of leading segments two paths share
CommonLen(a, b) ==
    IF a = <<>> \/ b = <<>> \/ Head(a) # Head(b) THEN 0
    ELSE 1 + CommonLen(Tail(a), Tail(b))

\* path.relative(from, to) on resolved paths: one ".." for every segment of
\* from below the common ancestor, then the rest of to; "" when they are equal.
PathRelative(from, to) ==
    LET k == CommonLen(from, to)
    IN  [j \in 1..(Len(from) - k) |-> ".."] \o SubSeq(to, k + 1, Len(to))

\* rel.startsWith(".."): rel is its segments joined by "/", so it starts with
\* ".." exactly when its first segment does.
StartsWithDotDot(rel) == rel # <<>> /\ Head(rel) \in DotDotPrefixed

\* path.isAbsolute(rel): a POSIX relative path never begins with "/".
PathIsAbsolute(rel) == rel # <<>> /\ Head(rel) = ""

\* isPathInside, lines 146-149
IsPathInside(child, parent) ==
    LET rel == PathRelative(PathResolve(parent), PathResolve(child))
    IN  rel = <<>> \/ (~StartsWithDotDot(rel) /\ ~PathIsAbsolute(rel))

PathInit ==
    /\ HandlerIdle
    /\ call \in [fn : {"isPathInside"}, child : Paths, parent : Paths,
                  done : {FALSE}, result : {FALSE}]

\* isPathInside(child, parent) is called and returns.
CallIsPathInside ==
    /\ call.fn = "isPathInside"
    /\ ~call.done
    /\ call' = [call EXCEPT !.done = TRUE,
                            !.result = IsPathInside(call.child, call.parent)]
    /\ UNCHANGED handlerVars

PathNext == CallIsPathInside

PathSpec == PathInit /\ [][PathNext]_vars

\* ---------------------------------------------------------------- parseArgs
\* The argument string is the sequence of its whitespace-separated tokens
\* (rawArgs.trim().split(/\s+/)); the empty sequence is the missing or blank
\* argument string of line 78.
MaxArgs == 4        \* tokens of an argument string

DEFAULT_DAYS == 7
DEFAULT_CONCURRENCY == 10
DEFAULT_TIMEOUT_MINUTES == 12
DEFAULT_OUTPUT_DIR == ".pi/reports/conversation-retro"

Tokens ==
    {"--days", "-c", "--timeout", "--limit", "--output", "--dry-run",
     "0", "5", "17", "61", "91", "abc", "5x"}

ArgLists == UNION {[1..n -> Tokens] : n \in 0..MaxArgs}

\* Number.parseInt(token, 10): the leading decimal digits, NaN without any.
ParseInt(token) ==
    CASE token = "0"  -> [finite |-> TRUE, n |-> 0]
      [] token = "5"  -> [finite |-> TRUE, n |-> 5]
      [] token = "5x" -> [finite |-> TRUE, n |-> 5]
      [] token = "17" -> [finite |-> TRUE, n |-> 17]
      [] token = "61" -> [finite |-> TRUE, n |-> 61]
      [] token = "91" -> [finite |-> TRUE, n |-> 91]
      [] OTHER        -> [finite |-> FALSE, n |-> 0]

\* the flags that take a number, and the option each one sets
FlagOption(part) ==
    CASE part \in {"--days", "-d"}        -> "days"
      [] part \in {"--concurrency", "-c"} -> "concurrency"
      [] part \in {"--timeout", "-t"}     -> "timeoutMinutes"
      [] part \in {"--limit", "-l"}       -> "limit"
      [] OTHER                            -> "none"

\* Mutant: no upper bound on any number.
Accepted_NoUpperBound(option, parsed) == parsed.finite /\ parsed.n > 0

\* the conditions of lines 87, 96, 105 and 120
Accepted(option, parsed) ==
    /\ parsed.finite
    /\ parsed.n > 0
    /\ CASE option = "days"           -> parsed.n <= 90
          [] option = "concurrency"    -> parsed.n <= 16
          [] option = "timeoutMinutes" -> parsed.n <= 60
          [] OTHER                     -> TRUE

\* the options of lines 70-76; limit 0 stands for no limit
DefaultOptions ==
    [days |-> DEFAULT_DAYS, concurrency |-> DEFAULT_CONCURRENCY,
     timeoutMinutes |-> DEFAULT_TIMEOUT_MINUTES, outputDir |-> DEFAULT_OUTPUT_DIR,
     limit |-> 0, dryRun |-> FALSE]

RECURSIVE ParseParts(_, _, _)
\* The loop of lines 81-131 from token i on. st.options are the options so
\* far; st.handled records, for every numeric flag the loop handled, the
\* option and the value token (history: the options do not depend on it).
ParseParts(parts, i, st) ==
    IF i > Len(parts) THEN st
    ELSE LET part    == parts[i]
             hasNext == i + 1 <= Len(parts)
             option  == FlagOption(part)
         IN  IF option # "none" /\ hasNext
             THEN LET parsed == ParseInt(parts[i + 1])
                      h      == Append(st.handled, [option |-> option, value |-> parts[i + 1]])
                  IN  ParseParts(parts, i + 2,
                        [options |-> IF Accepted(option, parsed)
                                     THEN [st.options EXCEPT ![option] = parsed.n]
                                     ELSE st.options,
                         handled |-> h])
             ELSE IF part \in {"--output", "-o"} /\ hasNext
             THEN ParseParts(parts, i + 2, [st EXCEPT !.options.outputDir = parts[i + 1]])
             ELSE IF part = "--dry-run"
             THEN ParseParts(parts, i + 1, [st EXCEPT !.options.dryRun = TRUE])
             ELSE ParseParts(parts, i + 1, st)

\* parseArgs, lines 69-134
ParseArgs(parts) == ParseParts(parts, 1, [options |-> DefaultOptions, handled |-> <<>>])

ArgsInit ==
    /\ HandlerIdle
    /\ call \in [fn : {"parseArgs"}, parts : ArgLists, done : {FALSE},
                  options : {DefaultOptions}, handled : {<<>>}]

\* parseArgs(args) is called and returns.
CallParseArgs ==
    /\ call.fn = "parseArgs"
    /\ ~call.done
    /\ \E st \in {ParseArgs(call.parts)} :
         call' = [call EXCEPT !.done = TRUE, !.options = st.options,
                               !.handled = st.handled]
    /\ UNCHANGED handlerVars

ArgsNext == CallParseArgs

ArgsSpec == ArgsInit /\ [][ArgsNext]_vars

\* ------------------------------------------------- runPiCommand, one call
\* One call of runPiCommand on its own: the child and the timers (proc) and
\* the promise it returned (value). A spawn error may be followed by a close
\* event of the same child.
MaxChunks == 2      \* data events per stream of one child

PiCall ==
    [fn |-> "runPiCommand", proc |-> SpawnedProc, stdout |-> <<>>, stderr |-> <<>>,
     value |-> NoRunPiResult, spawnError |-> FALSE, lateClose |-> FALSE]

PiInit ==
    /\ HandlerIdle
    /\ call = PiCall

\* clearTimeout(timeoutId); resolve(v): the first resolve settles the promise,
\* a later one is ignored.
PromiseResolve(c, v) ==
    [c EXCEPT !.value = IF c.proc.resolved THEN @ ELSE v, !.proc = Settled(@)]

\* the timeout callback, lines 427-433
PiTimeout ==
    /\ call.fn = "runPiCommand"
    /\ call.proc.timeoutId = "armed"
    /\ \E reaction \in {"dying", "ignoring"} :
         call' = [call EXCEPT !.proc =
                    [ProcKill([@ EXCEPT !.killed = TRUE], "SIGTERM")
                       EXCEPT !.timeoutId = "fired", !.grace = "armed",
                              !.child = reaction]]
    /\ UNCHANGED handlerVars

\* the inner timer callback, lines 430-432
PiGrace ==
    /\ call.fn = "runPiCommand"
    /\ call.proc.grace = "armed"
    /\ call' = [call EXCEPT !.proc =
                   IF SendsForcedKill(@)
                   THEN LET q == ProcKill(@, "SIGKILL")
                        IN  [q EXCEPT !.grace = "fired",
                                      !.child = IF "SIGKILL" \in q.signals
                                                THEN "dying" ELSE @]
                   ELSE [@ EXCEPT !.grace = "fired"]]
    /\ UNCHANGED handlerVars

\* a data event of the child's stdout, lines 435-437: stdout += chunk
PiStdoutData ==
    /\ call.fn = "runPiCommand"
    /\ call.proc.child \in {"running", "dying", "ignoring"}
    /\ Len(call.stdout) < MaxChunks
    /\ call' = [call EXCEPT !.stdout = Append(@, "text")]
    /\ UNCHANGED handlerVars

\* a data event of the child's stderr, lines 439-441: stderr += chunk
PiStderrData ==
    /\ call.fn = "runPiCommand"
    /\ call.proc.child \in {"running", "dying", "ignoring"}
    /\ Len(call.stderr) < MaxChunks
    /\ call' = [call EXCEPT !.stderr = Append(@, "log")]
    /\ UNCHANGED handlerVars

\* the close handler, lines 443-446
PiClose ==
    /\ call.fn = "runPiCommand"
    /\ CanClose(call.proc)
    /\ \E code \in CodesOf(call.proc) :
         call' = PromiseResolve(call, OnClose(code, call.stdout, call.stderr,
                                              call.proc.killed))
    /\ UNCHANGED handlerVars

\* the error handler, lines 448-451, on a failed spawn; the child's close
\* event may still follow.
PiError ==
    /\ call.fn = "runPiCommand"
    /\ CanError(call.proc)
    /\ \E more \in BOOLEAN :
         call' = [PromiseResolve(call, OnError(call.stdout, call.stderr))
                    EXCEPT !.spawnError = TRUE, !.lateClose = more]
    /\ UNCHANGED handlerVars

\* the close handler again, for the close event that follows an error event
PiLateClose ==
    /\ call.fn = "runPiCommand"
    /\ call.lateClose
    /\ \E code \in CloseCodes :
         call' = [PromiseResolve(call, OnClose(code, call.stdout, call.stderr,
                                               call.proc.killed))
                    EXCEPT !.lateClose = FALSE]
    /\ UNCHANGED handlerVars

PiNext ==
    \/ PiTimeout
    \/ PiGrace
    \/ PiStdoutData
    \/ PiStderrData
    \/ PiClose
    \/ PiError
    \/ PiLateClose

PiSpec == PiInit /\ [][PiNext]_vars

\* Node's event loop runs every pending callback.
FairPiSpec == PiSpec /\ WF_vars(PiNext)

\* ------------------------------------------------- discovery, both scans
\* The handler's discovery (lines 604-619) on the session files as the
\* recursive scan returns them, before any filter. A session file has its base
\* name, its creation instant and what its header gives for cwd: no usable
\* header (readSessionHeader returns null), an empty cwd, a cwd for which
\* isPathInside(cwd, repoRoot) is true, or one for which it is false. The files
\* and the output directory are the same for both scans.
CutoffMs  == 1                  \* cutoffMs of line 604, among the instants
ScanTimes == {0} \cup Times     \* 0: created before the cutoff
Cwds      == {"none", "empty", "inside", "outside"}

SessionFiles ==
    UNION {[1..n -> [name : Names, created : ScanTimes, cwd : Cwds]] : n \in 0..MaxRecords}

\* Mutant: the first scan does not apply the cutoff.
RowInScope_NoCutoff(row) == row.cwd \notin {"none", "empty"} /\ row.cwd = "inside"

\* the filter of line 612:
\* row.created >= cutoffMs && row.header?.cwd && isPathInside(row.header.cwd, repoRoot)
RowInScope(row) ==
    /\ row.created >= CutoffMs
    /\ row.cwd \notin {"none", "empty"}
    /\ row.cwd = "inside"

\* allRecentInRepo, lines 606-612: the rows that pass the filter, in scan order.
AllRecentInRepo(sessions) ==
    LET kept == SeqFilter(ScanOrder(sessions), {i \in DOMAIN sessions : RowInScope(sessions[i])})
    IN  [j \in 1..Len(kept) |-> sessions[kept[j]]]

\* the three continue statements of lines 474-478
ScanSkips(f) ==
    \/ f.created < CutoffMs
    \/ f.cwd \in {"none", "empty"}
    \/ f.cwd # "inside"

\* The files that reach line 480 in the loop of getConversationCandidates.
ScanReaches(sessions) ==
    LET kept == SeqFilter(ScanOrder(sessions), {i \in DOMAIN sessions : ~ScanSkips(sessions[i])})
    IN  [j \in 1..Len(kept) |-> [name |-> sessions[kept[j]].name,
                                  created |-> sessions[kept[j]].created]]

ScanInit ==
    /\ HandlerIdle
    /\ call \in [fn : {"discovery"}, sessions : SessionFiles, existing : SUBSET Names,
                  limit : 0..MaxLimit, done : {FALSE}, totalInScope : {0},
                  totalSkippedExisting : {0}, totalToAnalyze : {0}, candidates : {<<>>}]

\* Lines 606-619: the first scan, getConversationCandidates, the limit and the
\* three totals.
CallDiscovery ==
    /\ call.fn = "discovery"
    /\ ~call.done
    /\ LET allRecentInRepo == AllRecentInRepo(call.sessions)
           found   == GetConversationCandidates(ScanReaches(call.sessions), call.existing)
           limited == LimitCandidates(found.candidates, call.limit)
       IN  call' = [call EXCEPT !.done = TRUE,
                                 !.totalInScope = Len(allRecentInRepo),
                                 !.totalSkippedExisting = found.skippedExisting,
                                 !.totalToAnalyze = Len(limited),
                                 !.candidates = found.candidates]
    /\ UNCHANGED handlerVars

ScanNext == CallDiscovery

ScanSpec == ScanInit /\ [][ScanNext]_vars

\* ================================================================ claims
\* The worker invocations that have started and not yet completed.
InFlight == {i \in DOMAIN results : procs[i] # NoProc /\ ~results[i].set}

\* runWithConcurrency has resolved (the handler is past line 643).
PoolResolved == pc \in {"poolResolved", "awaitReviewer"} \/ (pc = "returned" /\ ~IsDryRun)

\* C1: the results array has one slot per item, a stored result sits at the
\* index of the item it answers (the AnalysisResult of worker(items[i], i)
\* carries candidate = items[i], and is a success only if the child of item i was
\* not killed), and once the pool has resolved every slot is
\* filled, whatever the order of completion.
C1_ResultsIndexStable ==
    /\ pc \in {"awaitPool", "threw"} \/ PoolResolved => Len(results) = Len(items)
    /\ \A i \in DOMAIN results : results[i].set => results[i].candidate = items[i]
    /\ \A i \in DOMAIN results : results[i].success => ~procs[i].killed
    /\ PoolResolved => \A i \in 1..Len(items) : results[i].set

\* Witness of C1: two same-named items both succeeded and the file left is the
\* one written for item 1, so item 2 completed first; the pool has resolved.
C1_Witness ==
    /\ pc = "poolResolved"
    /\ Len(results) = 2
    /\ results[1].success /\ results[2].success
    /\ files[items[1]].name = files[items[2]].name
    /\ artifacts[files[items[1]].name] = Written(items[1])

\* C2: at most min(C, N) worker invocations are in flight.
C2_InFlightBounded ==
    Cardinality(InFlight) <= Min(options.concurrency, Len(items))

\* Witness of C2: concurrency 1, two items, the second in flight after the first.
C2_Witness ==
    /\ options.concurrency = 1
    /\ Len(items) = 2
    /\ InFlight = {2}

\* C3 (as claimed): once the 4-second grace timer has fired for a child that
\* ignored SIGTERM and has not exited, SIGKILL has been sent to it.
C3_ForcedKillSent ==
    \A p \in ProcIds :
        procs[p].grace = "fired" /\ procs[p].child = "ignoring"
            => "SIGKILL" \in procs[p].signals

\* The results that are failures: stored, with success = false.
FailedResults == {i \in DOMAIN results : results[i].set /\ ~results[i].success}

\* C4: a failed analysis is a value, never a throw, and does not stop the
\* batch: no loop is rejected and the handler's await does not throw; while
\* items are unclaimed every loop of the pool is busy; the pool resolves exactly
\* when every item has its result; after it, every selected record was started
\* and has its one result, and the failures are counted in progress.failed.
C4_FailureNeverAborts ==
    /\ pc # "threw"
    /\ \A k \in 1..MaxConc : loops[k].st # "rejected"
    /\ pc = "awaitPool" /\ cursor <= Len(items)
         => \A k \in 1..PoolSize : loops[k].st = "awaiting"
    /\ pc = "awaitPool" => \E i \in 1..Len(items) : ~results[i].set
    /\ PoolResolved =>
         /\ \A i \in 1..Len(items) : procs[i] # NoProc /\ results[i].set
         /\ progress.finished = Len(items)
         /\ progress.failed = Cardinality(FailedResults)

\* Witness of C4: with one loop, the first record failed and the second was
\* still analysed, with success; the run is past the analysis phase.
C4_Witness ==
    /\ pc = "awaitReviewer"
    /\ options.concurrency = 1
    /\ Len(results) = 2
    /\ results[1].set /\ ~results[1].success
    /\ results[2].success

\* "Not forcibly terminated": the supervisor sent the child no signal.
Unsignalled(proc) == proc.signals = {}

\* C5: for every analysis child that can still report, and every close event
\* (exit code, captured stdout) and outcome of the write, analyzeConversation
\* returns success exactly when the code is 0 (or missing), no signal was sent
\* to the child, the trimmed stdout is non-empty and the write succeeded; it
\* writes the artifact exactly when it succeeds; an error event is a failure.
\* And for every stored result: a success belongs to an unkilled, unsignalled
\* child and its artifact exists, a failure left no artifact of its own.
C5_SuccessIff ==
    /\ \A i \in InFlight :
         /\ CanClose(procs[i]) =>
              \A code \in CodesOf(procs[i]), stdout \in Stdouts, writeOk \in BOOLEAN :
                LET a == AnalyzeConversation(items[i],
                             OnClose(code, stdout, NoStderr, procs[i].killed), writeOk)
                IN  /\ a.success <=> /\ code \in {"0", "null"}
                                     /\ Unsignalled(procs[i])
                                     /\ Trim(stdout) # ""
                                     /\ writeOk
                    /\ a.wrote <=> a.success
         /\ CanError(procs[i]) =>
              \A a \in ErrorOutcomes(i) : ~a.success /\ ~a.wrote
    /\ \A i \in DOMAIN results :
         /\ results[i].success =>
              /\ ~procs[i].killed /\ Unsignalled(procs[i])
              /\ artifacts[files[items[i]].name].kind = "new"
         /\ results[i].set /\ ~results[i].success =>
              artifacts[files[items[i]].name] # Written(items[i])

\* Witness of C5: one task succeeded and its artifact is in place, another was
\* sent SIGTERM on timeout and is a failure without an artifact.
C5_Witness ==
    /\ Len(results) = 2
    /\ results[1].success
    /\ artifacts[files[items[1]].name] = Written(items[1])
    /\ results[2].set /\ ~results[2].success
    /\ "SIGTERM" \in procs[2].signals
    /\ artifacts[files[items[2]].name] = NoFile

\* C6: finished = succeeded + failed, running + finished <= totalToAnalyze and
\* running >= 0, in every state.
C6_ProgressCounters ==
    /\ progress.finished = progress.succeeded + progress.failed
    /\ progress.running + progress.finished <= progress.totalToAnalyze
    /\ progress.running >= 0

\* Witness of C6: one task is running, one finished as a failure.
C6_Witness ==
    /\ progress.running = 1
    /\ progress.finished = 1
    /\ progress.failed = 1

PhaseRank(ph) ==
    CASE ph = "discovering" -> 1
      [] ph = "analyzing"   -> 2
      [] ph = "reviewing"   -> 3
      [] ph = "done"        -> 4

\* C7: the phase starts at discovering, no step takes it to an earlier phase,
\* and once it is done it stays done.
C7_PhaseForward ==
    /\ progress.phase = "discovering"
    /\ [][/\ PhaseRank(progress'.phase) >= PhaseRank(progress.phase)
          /\ progress.phase = "done" => progress'.phase = "done"]_vars

\* Witness of C7: a run that went through all four phases.
C7_Witness ==
    /\ pc = "returned"
    /\ progress.phase = "done"
    /\ progress.reviewerDone
    /\ ui.widget = "done"

\* The handler has returned in phase done with the status entry removed.
Finished == pc = "returned" /\ progress.phase = "done" /\ ui.status = "unset"

\* C8 (as claimed): every invocation of the handler eventually returns in
\* phase done with the status indicator cleared.
C8_AlwaysFinishes == <>Finished

\* C9: on a dry run no pi process is spawned, no pool callback has run (the
\* counters and runningItems are untouched, no result is stored), no artifact,
\* bundle or report is written, and a returned run is in phase done.
C9_DryRunInert ==
    options.dryRun =>
        /\ \A p \in ProcIds : procs[p] = NoProc
        /\ results = <<>> /\ cursor = 1
        /\ progress.running = 0 /\ progress.finished = 0
        /\ progress.succeeded = 0 /\ progress.failed = 0
        /\ progress.runningItems = <<>>
        /\ \A n \in Names : artifacts[n].kind # "new"
        /\ bundle = <<>>
        /\ \A f \in ReportFiles : reports[f] = "absent"
        /\ pc = "returned" => progress.phase = "done"

\* Witness of C9: a finished dry run that had records to analyse.
C9_Witness ==
    /\ options.dryRun
    /\ pc = "returned"
    /\ progress.totalToAnalyze > 0

\* The synthesis invocation has resolved and failed: non-zero exit, killed, or
\* empty trimmed output.
SynthesisFailed ==
    /\ reviewerResult.set
    /\ \/ reviewerResult.exitCode # 0
       \/ reviewerResult.killed
       \/ Trim(reviewerResult.stdout) = ""

\* What C10 says of the state after a failed synthesis, but for the notification.
ReviewFailureEffects ==
    /\ pc = "returned"
    /\ progress.phase = "done"
    /\ \A f \in ReportFiles : reports[f] = "absent"
    /\ progress.reportPath = "unset"
    /\ ~progress.reviewerDone

\* C10 (as claimed): after a failed synthesis the run is done, an error
\* notification has been emitted, no report file is written and reportPath is
\* unset.
C10_FailureReported ==
    SynthesisFailed => ReviewFailureEffects /\ "reviewer-failed" \in notifications

\* C10 (amended): as claimed, with the error notification emitted when the host
\* has a UI (without one nothing is emitted); and the turn that handles the
\* failed synthesis leaves every artifact file as it was.
C10_FailureReportedWithUI ==
    /\ [](SynthesisFailed =>
            /\ ReviewFailureEffects
            /\ "reviewer-failed" \in notifications <=> hasUI)
    /\ [][pc = "awaitReviewer" => artifacts' = artifacts]_vars

\* Witness of C10: the reviewer exited with a non-zero code after an analysis
\* wrote an artifact in this run; a UI is present.
C10_Witness ==
    /\ SynthesisFailed
    /\ reviewerResult.exitCode # 0 /\ ~reviewerResult.killed
    /\ hasUI
    /\ \E n \in Names : artifacts[n].kind = "new"

\* The synthesis process has been invoked.
ReviewInvoked == procs[Reviewer] # NoProc

\* The artifact paths (by base name) of the in-scope records whose artifact
\* file exists now.
InScopeExisting ==
    {files[i].name : i \in {j \in 1..Len(files) : artifacts[files[j].name] # NoFile}}

\* The artifact paths given to the synthesis process.
BundleSet == {bundle[j] : j \in DOMAIN bundle}

C11_SkipWitness ==
    /\ pc = "returned" /\ ~options.dryRun
    /\ ~ReviewInvoked
    /\ FailedResults # {}

\* The in-scope records whose artifact file was there when the run began.
SkippedRecords == {i \in 1..Len(files) : artifacts[files[i].name] = OldFile}

\* C12: in every run, after discovery, the records whose artifact file already
\* existed are counted in totalSkippedExisting, are not candidates and are not
\* handed to an analysis; and in a run that follows another over the same
\* session files, the candidate set is the earlier run's candidate set minus
\* the records whose artifacts now exist, and no record analysed with success
\* in an earlier run is selected for analysis again.
C12_Dedup ==
    pc # "discover" =>
        /\ progress.totalSkippedExisting = Cardinality(SkippedRecords)
        /\ CandidateSet(candidates) \cap SkippedRecords = {}
        /\ \A j \in DOMAIN items : items[j] \notin SkippedRecords
        /\ earlier.runs > 0 =>
             /\ CandidateSet(candidates) = earlier.candidates \ SkippedRecords
             /\ CandidateSet(items) \cap earlier.analysed = {}

\* Witness of C12: a second run whose candidate list is not empty and is
\* shorter than that of the first run, in which a record was analysed.
C12_Witness ==
    /\ earlier.runs = 1
    /\ pc = "branch"
    /\ earlier.analysed # {}
    /\ candidates # <<>>
    /\ CandidateSet(candidates) # earlier.candidates

\* a is b or an ancestor of b (both resolved)
IsPrefix(a, b) == Len(a) <= Len(b) /\ SubSeq(b, 1, Len(a)) = a

\* C13 (as claimed): isPathInside(child, parent) returns true exactly when the
\* resolved child is the resolved parent or a descendant of it, whatever the
\* names of its segments.
C13_InsideIffDescendant ==
    call.fn = "isPathInside" /\ call.done =>
        (call.result <=> IsPrefix(PathResolve(call.parent), PathResolve(call.child)))

\* The promise of the call has settled.
PiResolved == call.fn = "runPiCommand" /\ call.proc.resolved

\* What C14 says of a call that has resolved: it resolved with a result
\* structure that no later event replaces, and after a spawn error that
\* structure has a non-zero exitCode and a stderr that holds the error text.
C14_SettlesOnce ==
    /\ [](PiResolved => call.value.set)
    /\ [](PiResolved /\ call.spawnError =>
            /\ call.value.exitCode # 0
            /\ \E j \in DOMAIN call.value.stderr : call.value.stderr[j] = SpawnErrorText)
    /\ [][PiResolved => call'.value = call.value]_vars

\* Witness of C14's spawn error case: the close event that followed a spawn
\* error has been handled.
C14_Witness ==
    /\ PiResolved
    /\ call.spawnError /\ ~call.lateClose
    /\ call.proc.child = "exited"
    /\ call.stderr # <<>>

\* C14 (as claimed): for every behaviour of the child (exit, timeout, spawn
\* error) the call resolves, exactly once, with a result structure as above.
C14_AlwaysResolvesOnce == C14_SettlesOnce /\ <>PiResolved

NumericOptions == {"days", "concurrency", "timeoutMinutes", "limit"}

\* The occurrences of the flag of option o that parseArgs handled.
HandledOf(o) == {j \in DOMAIN call.handled : call.handled[j].option = o}

\* ... and those among them whose value passes the checks of that flag.
ValidOf(o) ==
    {j \in HandledOf(o) : Accepted(o, ParseInt(call.handled[j].value))}

Last(S) == CHOOSE j \in S : \A k \in S : k <= j

\* parseArgs has returned options within the documented bounds.
OptionsInBounds ==
    /\ 1 <= call.options.days /\ call.options.days <= 90
    /\ 1 <= call.options.concurrency /\ call.options.concurrency <= 16
    /\ 1 <= call.options.timeoutMinutes /\ call.options.timeoutMinutes <= 60
    /\ call.options.limit = 0 \/ call.options.limit >= 1

\* Tokens that are no flag change nothing.
PlainTokensIgnored ==
    (\A j \in DOMAIN call.parts :
        call.parts[j] \in {"0", "5", "17", "61", "91", "abc", "5x"})
        => call.options = DefaultOptions

\* C15 (as claimed): parseArgs returns options within the bounds, tokens that
\* are no flag change nothing, and a flag whose value is unparseable or out of
\* range leaves its option at the default (7, 10, 12, no limit).
C15_BadValueGivesDefault ==
    call.fn = "parseArgs" /\ call.done =>
        /\ OptionsInBounds
        /\ PlainTokensIgnored
        /\ \A o \in NumericOptions :
             HandledOf(o) # {} /\ Last(HandledOf(o)) \notin ValidOf(o)
                 => call.options[o] = DefaultOptions[o]

\* C15 (amended): as claimed, but a flag whose value is unparseable or out of
\* range leaves its option as it was: every numeric option has the value of
\* the last occurrence of its flag with an acceptable value, and its default
\* when there is no such occurrence.
C15_BadValueChangesNothing ==
    call.fn = "parseArgs" /\ call.done =>
        /\ OptionsInBounds
        /\ PlainTokensIgnored
        /\ \A o \in NumericOptions :
             call.options[o] =
                 IF ValidOf(o) = {} THEN DefaultOptions[o]
                 ELSE ParseInt(call.handled[Last(ValidOf(o))].value).n

\* Witness of C15: --days with an acceptable value, then --days with a value
\* out of range; days has the first value, not the default.
C15_Witness ==
    /\ call.fn = "parseArgs" /\ call.done
    /\ call.parts = <<"--days", "5", "--days", "91">>
    /\ call.options.days = 5

\* The in-scope records without an artifact file when the run began.
FreshRecords == (1..Len(files)) \ SkippedRecords

\* C16: after discovery the selected records are candidates, each once, as
\* many as the limit allows (all of them without a limit or with fewer than L
\* candidates); no candidate left out is older than a selected one, and the
\* selected ones are in ascending order of creation time; totalInScope and
\* totalSkippedExisting are the numbers of in-scope and of skipped records,
\* whatever the limit.
C16_LimitTakesOldest ==
    pc \notin {"discover", "idle"} =>
        /\ CandidateSet(candidates) = FreshRecords
        /\ CandidateSet(items) \subseteq FreshRecords
        /\ Cardinality(CandidateSet(items)) = Len(items)
        /\ Len(items) = IF options.limit = 0 THEN Cardinality(FreshRecords)
                        ELSE Min(options.limit, Cardinality(FreshRecords))
        /\ \A s \in CandidateSet(items), u \in FreshRecords \ CandidateSet(items) :
             files[s].created <= files[u].created
        /\ \A j, k \in DOMAIN items :
             j < k => files[items[j]].created <= files[items[k]].created
        /\ progress.totalInScope = Len(files)
        /\ progress.totalSkippedExisting = Cardinality(SkippedRecords)
        /\ progress.totalToAnalyze = Len(items)

\* Witness of C16: limit 1 and two candidates, the scan finding the newer one
\* first; the older one is selected.
C16_Witness ==
    /\ pc = "branch"
    /\ options.limit = 1
    /\ Len(candidates) = 2
    /\ files[1].created > files[2].created
    /\ items = <<2>>

\* The synthesis invocation has resolved and succeeded.
SynthesisSucceeded == reviewerResult.set /\ ~SynthesisFailed

\* The trimmed synthesis output plus a newline.
ExpectedReport ==
    CASE reviewerResult.stdout = "text"     -> "text\n"
      [] reviewerResult.stdout = " more\n"  -> "more\n"
      [] OTHER                              -> "\n"

\* C17: once the synthesis has succeeded the run is in phase done with both
\* report files holding the trimmed output plus a newline and reportPath
\* naming the tagged file, and phase done after a review is never shown
\* without them; and over consecutive runs the latest file always holds the
\* report of the most recent run whose synthesis succeeded (nothing before
\* the first such run).
C17_ReportsWritten ==
    /\ SynthesisSucceeded =>
         /\ reports["tagged"] = ExpectedReport
         /\ reports["latest"] = ExpectedReport
         /\ progress.phase = "done" /\ progress.reviewerDone
         /\ progress.reportPath = "tagged"
    /\ progress.reviewerDone => SynthesisSucceeded
    /\ reports["latest"] =
         IF SynthesisSucceeded THEN ExpectedReport ELSE earlier.report

\* Witness of C17: a second successful run has replaced the report of the
\* first one in the latest file.
C17_Witness ==
    /\ earlier.runs = 1
    /\ earlier.report = "text\n"
    /\ SynthesisSucceeded
    /\ reports["latest"] = "more\n"
    /\ reports["tagged"] = "more\n"

\* Everything runWithConcurrency does for one index, by loop k, in order.
FullLog(k) == Did(k, <<"claim", "onItemStart", "worker", "store", "onItemDone">>)

\* The number of indices for which event ev has happened.
Count(ev) ==
    Cardinality({i \in 1..MaxRecords : \E j \in DOMAIN log[i] : log[i][j].ev = ev})

\* C18: what has happened for an index is a beginning of: claimed by one loop,
\* onItemStart, worker launched, result stored, onItemDone, all by that loop
\* (so no index is claimed twice and nothing happens out of order); exactly
\* the indices below the cursor have been claimed, none beyond the items; an
\* index whose worker is awaited is held by the loop that claimed it; the
\* handler's callbacks ran once per onItemStart and onItemDone; and when the
\* pool has resolved both were called once for each of the N indices, which
\* is not at all when N = 0.
C18_ClaimedOnceInOrder ==
    /\ \A i \in 1..MaxRecords :
         /\ log[i] # <<>> =>
              /\ i <= Len(items)
              /\ \E k \in 1..PoolSize : IsPrefix(log[i], FullLog(k))
              /\ Len(log[i]) \in {3, 5}
         /\ Len(log[i]) = 3 => loops[log[i][1].loop] = [st |-> "awaiting", index |-> i]
         /\ Len(log[i]) >= 3 <=> procs[i] # NoProc
         /\ Len(log[i]) = 5 <=> i \in DOMAIN results /\ results[i].set
    /\ pc \in {"awaitPool", "poolResolved", "awaitReviewer"} /\ items # <<>> =>
         \A i \in 1..Len(items) : i < cursor <=> log[i] # <<>>
    /\ Count("onItemStart") = progress.running + progress.finished
    /\ Count("onItemDone") = progress.finished
    /\ PoolResolved =>
         /\ Count("onItemStart") = Len(items)
         /\ Count("onItemDone") = Len(items)
         /\ \A i \in 1..Len(items) : Len(log[i]) = 5

\* Witness of C18: two indices done from claim to onItemDone by two different
\* loops; the pool has resolved.
C18_Witness ==
    /\ pc = "poolResolved"
    /\ Len(items) = 2
    /\ Len(log[1]) = 5 /\ Len(log[2]) = 5
    /\ log[1][1].loop # log[2][1].loop

\* Witness of C18 for N = 0: the pool resolved without any callback.
C18_EmptyWitness ==
    /\ pc = "poolResolved"
    /\ items = <<>>
    /\ Len(files) > 0
    /\ Count("onItemStart") = 0 /\ Count("onItemDone") = 0

\* C19: runWithConcurrency resolves only when every claimed worker has
\* finished and its onItemDone has run: from then on no analysis is in flight,
\* no analysis child is alive and no loop awaits; the synthesis process exists
\* only then; and in phase reviewing running = 0 and finished =
\* totalToAnalyze.
C19_ReviewAfterAllTasks ==
    /\ PoolResolved =>
         /\ InFlight = {}
         /\ \A i \in 1..Len(items) :
              /\ procs[i].resolved /\ procs[i].child = "exited"
              /\ Len(log[i]) = 5
         /\ \A k \in 1..MaxConc : loops[k].st # "awaiting"
    /\ ReviewInvoked => PoolResolved
    /\ progress.phase = "reviewing" =>
         /\ progress.running = 0
         /\ progress.finished = progress.totalToAnalyze
         /\ progress.finished = Len(items)

\* Witness of C19: the synthesis runs after two analyses that ran side by side.
C19_Witness ==
    /\ pc = "awaitReviewer"
    /\ progress.phase = "reviewing"
    /\ options.concurrency = 2
    /\ progress.finished = 2
    /\ procs[Reviewer].child = "running"

\* The child of the call has exited (its close event has been handled).
PiExited == PiResolved /\ call.proc.child = "exited" /\ ~call.spawnError

\* What holds of C20: a child that exited before the timeout was sent no
\* signal, its timeout timer is cancelled and the result has killed = false;
\* and once the child has exited no signal is sent, forced or not.
C20_NoSignalAfterExit ==
    /\ [](PiExited /\ call.proc.timeoutId # "fired" =>
            /\ call.proc.timeoutId = "cleared"
            /\ call.proc.signals = {}
            /\ ~call.value.killed)
    /\ [][PiExited => call'.proc.signals = call.proc.signals]_vars

\* C20 (as claimed): once the child has exited no timer of the call is
\* pending: the timeout timer is cancelled when the child exits before the
\* timeout, and the forced-kill timer is cancelled when it exits after the
\* cooperative signal and before the grace period has elapsed.
C20_TimersCancelledAtExit ==
    PiExited => call.proc.timeoutId # "armed" /\ call.proc.grace # "armed"

\* The phases in which the UI says that subagents are at work.
WorkPhases == {"analyzing", "reviewing"}

\* What holds of C21: a dry run never has phase reviewing, in the progress
\* state or in a rendered snapshot, and its step out of phase analyzing goes
\* to done.
C21_DryRunNeverReviews ==
    /\ [](options.dryRun => progress.phase # "reviewing" /\ ui.widget # "reviewing")
    /\ [][options.dryRun /\ progress.phase = "analyzing"
            => progress'.phase \in {"analyzing", "done"}]_vars

\* C21 (as claimed): on a dry run the progress state never has phase
\* analyzing or reviewing, and neither has a snapshot rendered to the UI.
C21_DryRunSkipsPhases ==
    options.dryRun =>
        /\ progress.phase \notin WorkPhases
        /\ ui.widget \notin WorkPhases

\* How many times x is listed in s.
Occurrences(s, x) == Cardinality({j \in DOMAIN s : s[j] = x})

\* runningItems lists the base names of exactly the records whose analysis
\* has started and not finished, each as often as such records bear it.
RunningItemsMatch ==
    /\ Len(progress.runningItems) = progress.running
    /\ progress.running = Cardinality(InFlight)
    /\ \A n \in Names :
         Occurrences(progress.runningItems, n)
             = Cardinality({i \in InFlight : files[items[i]].name = n})

\* No two selected records share a base name.
SelectedNamesDistinct ==
    \A i, j \in DOMAIN items : i # j => files[items[i]].name # files[items[j]].name

\* What holds of C22: runningItems matches the running records in every run
\* whose selected records have distinct base names.
C22_MatchWithDistinctNames == SelectedNamesDistinct => RunningItemsMatch

\* C22 (as claimed): runningItems lists exactly the records whose analysis has
\* started and not finished, and runningItems.length = running, also when
\* selected records share a base name.
C22_RunningItemsMatch == RunningItemsMatch

\* The analyses that have written their artifact: those that returned success
\* (line 546 is reached only past the writeFileSync of line 537).
Writers == {i \in DOMAIN results : results[i].set /\ results[i].success}

\* No artifact file has been written by two analysis tasks of the run.
NoArtifactWrittenTwice ==
    \A i, j \in Writers : i # j => files[items[i]].name # files[items[j]].name

\* C23 (as claimed): any two distinct selected records have distinct
\* summaryPath values (outputDir/<base name>.md), and no artifact file is
\* written by more than one analysis task of a run.
C23_OneWriterPerArtifact == SelectedNamesDistinct /\ NoArtifactWrittenTwice

\* C24: after discovery over unchanged session files and output directory,
\* totalInScope = totalSkippedExisting + the number of candidates before the
\* limit, hence totalToAnalyze <= totalInScope - totalSkippedExisting: the
\* handler's own scan and the scan of getConversationCandidates agree.
C24_ScansAgree ==
    call.fn = "discovery" /\ call.done =>
        /\ call.totalInScope = call.totalSkippedExisting + Len(call.candidates)
        /\ call.totalToAnalyze <= call.totalInScope - call.totalSkippedExisting

\* Witness of C24: two files in scope, one of them with a summary, the other
\* a candidate.
C24_Witness ==
    /\ call.fn = "discovery" /\ call.done
    /\ call.totalInScope = 2
    /\ call.totalSkippedExisting = 1
    /\ Len(call.candidates) = 1
    /\ call.totalToAnalyze = 1

\* ... and a scan that leaves a file out: created at the cutoff is in scope,
\* created before it is not.
C24_CutoffWitness ==
    /\ call.fn = "discovery" /\ call.done
    /\ Len(call.sessions) = 2
    /\ call.sessions[1].created = CutoffMs
    /\ call.sessions[2].created < CutoffMs
    /\ call.sessions[2].cwd = "inside"
    /\ call.totalInScope = 1
    /\ Len(call.candidates) = 1

\* the flags of lines 85-125, which take the token after them as their value
ValueFlags ==
    {"--days", "-d", "--concurrency", "-c", "--timeout", "-t", "--output", "-o",
     "--limit", "-l"}

RECURSIVE TakenAsValue(_, _)
\* Token i stands behind a flag that takes it as its value (that flag being
\* no value itself).
TakenAsValue(parts, i) ==
    /\ i > 1
    /\ parts[i - 1] \in ValueFlags
    /\ ~TakenAsValue(parts, i - 1)

\* The positions of the --dry-run tokens in the argument string.
DryRunTokens == {i \in DOMAIN call.parts : call.parts[i] = "--dry-run"}

\* What holds of C25: dryRun is true exactly when some --dry-run token is not
\* the token behind a flag that takes a value.
C25_DryRunUnlessTakenAsValue ==
    call.fn = "parseArgs" /\ call.done =>
        (call.options.dryRun <=> \E i \in DryRunTokens : ~TakenAsValue(call.parts, i))

\* C25 (as claimed): whenever --dry-run is one of the tokens of the argument
\* string, at any position, parseArgs returns dryRun = true.
C25_DryRunTokenHonoured ==
    call.fn = "parseArgs" /\ call.done /\ DryRunTokens # {} => call.options.dryRun

====
